---- MODULE Spec2Model ----
(***************************************************************************)
(* The post collection pipeline of the site: frontmatter documents are     *)
(* parsed against the posts schema (src/content/config.ts), the blog index *)
(* page queries the collection, orders it with sortByPublished             *)
(* (src/lib/utils.ts) and maps it to list entries (src/pages/blog.astro).  *)
(***************************************************************************)
EXTENDS Integers, Sequences, FiniteSets, TLC

\* ---------------------------------------------------------------- bounds
MaxDocs == 3          \* documents in the collection (pipeline runs)
MaxSchemaDocs == 1    \* documents in the collection (schema runs, all shapes)
MaxTime == 3          \* distinct published instants, in minutes since the epoch
MaxDatedDocs == 2     \* documents in the collection (calendar runs)
MaxZoneWest == 12     \* host zones reach this many hours west of UTC
MaxZoneEast == 14     \* host zones reach this many hours east of UTC

\* ------------------------------------------------ frontmatter raw values
\* A frontmatter value as the YAML parser hands it to the schema: its
\* JavaScript type and a payload (text identity, number, or the time value
\* of a Date, kept in whole minutes since the epoch).
\* "invalid_date" is a Date object whose time value is NaN.
Val(t, v) == [t |-> t, v |-> v]

undefined == Val("undefined", 0)

\* JavaScript truthiness of a frontmatter value: undefined is falsy, an
\* object (a Date, valid or not) is truthy, "" (text 0) and 0 are falsy.
Truthy(x) ==
    CASE x.t = "undefined" -> FALSE
      [] x.t = "string" -> x.v # 0
      [] x.t = "number" -> x.v # 0
      [] OTHER -> TRUE

\* ------------------------------------------------------ the posts schema
\* A string schema that lets a missing key through.
ZStringLenient(path, x) ==
    IF x.t \in {"string", "undefined"} THEN <<>>
    ELSE << [path |-> path, code |-> "invalid_type", received |-> x.t] >>

\* z.string(): the value must be a string; a missing key is reported with
\* the same code and the message "Required".
ZString(path, x) ==
    IF x.t = "string" THEN <<>>
    ELSE << [path |-> path, code |-> "invalid_type", received |-> x.t] >>

\* z.date(): the value must be a Date whose time is not NaN; the key is
\* required.
ZDate(path, x) ==
    IF x.t = "date" THEN <<>>
    ELSE IF x.t = "invalid_date"
         THEN << [path |-> path, code |-> "invalid_date", received |-> "date"] >>
         ELSE << [path |-> path, code |-> "invalid_type", received |-> x.t] >>

\* z.ostring() is z.string().optional(): undefined passes, anything else
\* must be a string.
ZOString(path, x) ==
    IF x.t = "undefined" THEN <<>> ELSE ZString(path, x)

\* A report that lists the issues without the key they are about.
SchemaIssuesUnnamed(doc) ==
    LET issues == ZString("title", doc.title)
                    \o ZString("description", doc.description)
                    \o ZDate("published", doc.published)
                    \o ZOString("og_image_path", doc.og_image_path)
    IN [k \in 1..Len(issues) |-> [issues[k] EXCEPT !.path = ""]]

\* The issues z.object({...}) collects for one document, in key order.
SchemaIssues(doc) ==
    ZString("title", doc.title)
      \o ZString("description", doc.description)
      \o ZDate("published", doc.published)
      \o ZOString("og_image_path", doc.og_image_path)

SchemaAccepts(doc) == SchemaIssues(doc) = <<>>

\* The collection entry built from a document that passed the schema.
Entry(doc) ==
    [id |-> doc.id, slug |-> doc.slug,
     data |-> [title |-> doc.title, description |-> doc.description,
               published |-> doc.published,
               og_image_path |-> doc.og_image_path]]

\* ------------------------------------------------------------- utilities
\* The ambient time zone of the build host, as minutes east of UTC.
VARIABLE zone

MinutesPerDay == 24 * 60

WeekdayNames ==
    <<"Sunday", "Monday", "Tuesday", "Wednesday", "Thursday", "Friday",
      "Saturday">>

MonthNames ==
    <<"January", "February", "March", "April", "May", "June", "July",
      "August", "September", "October", "November", "December">>

\* The calendar date of a day number (days since 1970-01-01), in the
\* proleptic Gregorian calendar that Date uses.
CivilFromDays(days) ==
    LET z == days + 719468
        era == z \div 146097
        doe == z - era * 146097
        yoe == (doe - doe \div 1460 + doe \div 36524 - doe \div 146096) \div 365
        doy == doe - (365 * yoe + yoe \div 4 - yoe \div 100)
        mp == (5 * doy + 2) \div 153
        d == doy - (153 * mp + 2) \div 5 + 1
        m == IF mp < 10 THEN mp + 3 ELSE mp - 9
        y == yoe + era * 400 + (IF m <= 2 THEN 1 ELSE 0)
    IN [year |-> y, month |-> m, day |-> d]

\* The day number of a calendar date.
DaysFromCivil(y, m, d) ==
    LET yy == IF m <= 2 THEN y - 1 ELSE y
        era == yy \div 400
        yoe == yy - era * 400
        doy == (153 * (IF m > 2 THEN m - 3 ELSE m + 9) + 2) \div 5 + d - 1
        doe == yoe * 365 + yoe \div 4 - yoe \div 100 + doy
    IN era * 146097 + doe - 719468

\* The Date a frontmatter timestamp YYYY-MM-DDTHH:mm:00.000Z is parsed to.
DateUTC(y, m, d, h, mi) ==
    Val("date", DaysFromCivil(y, m, d) * MinutesPerDay + h * 60 + mi)

\* Date fields whose weekday is read in UTC and whose date is read at the
\* offset.
DateFieldsAtUTCWeekday(minutes, offset) ==
    LET days == (minutes + offset) \div MinutesPerDay
        civil == CivilFromDays(days)
    IN [weekday |-> WeekdayNames[(((minutes \div MinutesPerDay) + 4) % 7) + 1],
        month |-> MonthNames[civil.month],
        day |-> civil.day,
        year |-> civil.year]

\* The date fields of an instant read at an offset from UTC; day 0 of the
\* epoch was a Thursday.
DateFieldsAt(minutes, offset) ==
    LET days == (minutes + offset) \div MinutesPerDay
        civil == CivilFromDays(days)
    IN [weekday |-> WeekdayNames[((days + 4) % 7) + 1],
        month |-> MonthNames[civil.month],
        day |-> civil.day,
        year |-> civil.year]

InvalidDateText == [weekday |-> "Invalid Date", month |-> "", day |-> 0, year |-> 0]

\* A formatter pinned to UTC (timeZone: 'UTC').
humanTimeUTC(date) ==
    IF date.t = "date" THEN DateFieldsAt(date.v, 0) ELSE InvalidDateText

\* humanTime(date): date.toLocaleString(undefined, {weekday: 'long',
\* year: 'numeric', month: 'long', day: 'numeric'}) in an en-US locale:
\* "<weekday>, <month> <day>, <year>", of the date in the host's zone.
\* The text is kept as its four parts.
humanTime(date) ==
    IF date.t = "date" THEN DateFieldsAt(date.v, zone) ELSE InvalidDateText

\* date.toISOString(): YYYY-MM-DDTHH:mm:ss.sssZ, always in UTC.  The text
\* is kept as its parts down to the minute.
toISOString(date) ==
    LET civil == CivilFromDays(date.v \div MinutesPerDay)
    IN [year |-> civil.year, month |-> civil.month, day |-> civil.day,
        hour |-> (date.v % MinutesPerDay) \div 60,
        minute |-> date.v % 60,
        suffix |-> "Z"]

\* Number(date): the time value of a Date; NaN for anything that is not a
\* valid Date.  NaN is carried as a flag next to the number.
Number(x) == IF x.t = "date" THEN [nan |-> FALSE, n |-> x.v]
                             ELSE [nan |-> TRUE, n |-> 0]

\* The comparator with its operands swapped (oldest first).
ComparePublishedAscending(a, b) ==
    LET nb == Number(b.data.published)
        na == Number(a.data.published)
    IN IF nb.nan \/ na.nan THEN 0 ELSE na.n - nb.n

\* The comparator of sortByPublished: Number(b.published) -
\* Number(a.published).  A NaN result is read by the sort as +0.
ComparePublished(a, b) ==
    LET nb == Number(b.data.published)
        na == Number(a.data.published)
    IN IF nb.nan \/ na.nan THEN 0 ELSE nb.n - na.n

\* An insertion that puts x before the elements it compares equal to.
RECURSIVE InsertSortedUnstable(_, _)
InsertSortedUnstable(s, x) ==
    IF s = <<>> THEN <<x>>
    ELSE IF ComparePublished(x, Head(s)) <= 0
         THEN <<x>> \o s
         ELSE <<Head(s)>> \o InsertSortedUnstable(Tail(s), x)

\* An insertion that keeps one element per comparison class.
RECURSIVE InsertSortedDedup(_, _)
InsertSortedDedup(s, x) ==
    IF s = <<>> THEN <<x>>
    ELSE IF ComparePublished(x, Head(s)) = 0
         THEN s
         ELSE IF ComparePublished(x, Head(s)) < 0
              THEN <<x>> \o s
              ELSE <<Head(s)>> \o InsertSortedDedup(Tail(s), x)

\* Array.prototype.toSorted is a stable comparison sort: x goes before the
\* first element it compares strictly less than.
RECURSIVE InsertSorted(_, _)
InsertSorted(s, x) ==
    IF s = <<>> THEN <<x>>
    ELSE IF ComparePublished(x, Head(s)) < 0
         THEN <<x>> \o s
         ELSE <<Head(s)>> \o InsertSorted(Tail(s), x)

RECURSIVE SortFrom(_, _)
SortFrom(acc, rest) ==
    IF rest = <<>> THEN acc
    ELSE SortFrom(InsertSorted(acc, Head(rest)), Tail(rest))

\* Array.prototype.sort: the receiver itself is reordered and returned.
SortInPlace(arr) ==
    [receiver |-> SortFrom(<<>>, arr), returned |-> SortFrom(<<>>, arr)]

\* What a call leaves behind: the array the caller passed and the array
\* that is returned.  toSorted copies; the receiver is left as it was.
ToSorted(arr) == [receiver |-> arr, returned |-> SortFrom(<<>>, arr)]

sortByPublished(collection) == ToSorted(collection)

\* ------------------------------------------------------- page composers
\* The filter blog.astro hands to getCollection: ({ data }) => data.published.
HasPublished(entry) == Truthy(entry.data.published)

\* getCollection(name, filter): the entries of the store the filter keeps,
\* in store order.
GetCollection(entries) == SelectSeq(entries, HasPublished)

\* An entry whose link is built from the published instant, not the slug.
IndexEntryDatedLink(post) ==
    [url |-> <<"/blog/", post.data.published.v>>,
     isoTimestamp |-> toISOString(post.data.published),
     humanTimeString |-> humanTime(post.data.published),
     title |-> post.data.title,
     description |-> post.data.description]

\* One <li> of the index: link, <time datetime> and text, heading, paragraph.
IndexEntry(post) ==
    [url |-> <<"/blog/", post.slug>>,
     isoTimestamp |-> toISOString(post.data.published),
     humanTimeString |-> humanTime(post.data.published),
     title |-> post.data.title,
     description |-> post.data.description]

\* A template that closes over the first post for the heading.
RenderIndexMixed(ordered) ==
    [i \in 1..Len(ordered) |->
        [IndexEntry(ordered[i]) EXCEPT !.title = ordered[1].data.title]]

\* sortByPublished(posts).map(post => <li>...</li>)
RenderIndex(ordered) == [i \in 1..Len(ordered) |-> IndexEntry(ordered[i])]

\* A loader that drops the documents that fail and keeps the rest.
ParseCollectionSkipInvalid(docs) ==
    [failing |-> {},
     entries |-> [i \in 1..Len(SelectSeq(docs, SchemaAccepts)) |->
                    Entry(SelectSeq(docs, SchemaAccepts)[i])]]

\* Loading the collection: every document is parsed against the schema; the
\* documents that fail are reported, and the store is filled only when
\* none fails.
ParseCollection(docs) ==
    LET bad == {i \in 1..Len(docs) : ~SchemaAccepts(docs[i])}
    IN [failing |-> bad,
        entries |-> IF bad = {} THEN [i \in 1..Len(docs) |-> Entry(docs[i])]
                                ELSE <<>>]

\* The explicit "absent" result of a detail lookup: a value holding no post.
NoPost == <<>>

\* A lookup that falls back to the first post when the slug is unknown.
DetailLookupFallback(entries, slug) ==
    IF \E i \in 1..Len(entries) : entries[i].slug = slug
    THEN << entries[CHOOSE i \in 1..Len(entries) : entries[i].slug = slug] >>
    ELSE IF entries = <<>> THEN NoPost ELSE << entries[1] >>

\* Detail composition: the post whose slug is the requested one, or the
\* explicit value "absent".
DetailLookup(entries, slug) ==
    IF \E i \in 1..Len(entries) : entries[i].slug = slug
    THEN << entries[CHOOSE i \in 1..Len(entries) : entries[i].slug = slug] >>
    ELSE NoPost

\* ---------------------------------------------------------------- layouts
\* In the layouts a text carries its characters, as the sequence of the
\* pieces it is put together from: "Blog" is <<"Blog">>, "" is <<>>.
Text(piece) == Val("string", <<piece>>)
EmptyText == Val("string", <<>>)

\* JavaScript truthiness of a prop, a frontmatter text or a storage item:
\* undefined, null and "" are falsy, any other text is truthy.
TruthyText(x) == x.t = "string" /\ x.v # <<>>

SiteName == "Ben Reinhart"

\* A title element that always interpolates the prop.
HomeTitleAlwaysSuffixed(title) ==
    IF title.t = "string" THEN title.v \o <<" · ", SiteName>>
                          ELSE <<"undefined", " · ", SiteName>>

\* Home.astro: <title>{title ? `${title} · Ben Reinhart` : 'Ben Reinhart'}</title>
HomeTitle(title) ==
    IF TruthyText(title) THEN title.v \o <<" · ", SiteName>> ELSE <<SiteName>>

Meta(property, content) == [property |-> property, content |-> content]

\* Home.astro: the head of a page wrapped in the Home layout.
HomeHead(title) ==
    [title |-> HomeTitle(title),
     metas |-> << Meta("og:type", <<"website">>),
                  Meta("og:locale", <<"en_US">>),
                  Meta("og:title", <<SiteName>>),
                  Meta("og:description", <<"Personal website and blog of Ben Reinhart">>),
                  Meta("og:url", <<"https://benreinhart.com/">>) >>]

\* The references new URL(reference, base) is given in the post layout.
RootedPaths == {"/og/slack-verification.png"}
RelativePaths == {"og/cover.png"}

\* new URL(reference, origin).toString() for a reference that is a path: a
\* rooted path replaces the path of the base, a relative one is appended
\* to the root.
ResolveUrl(reference, origin) ==
    IF \A k \in 1..Len(reference) : reference[k] \in RootedPaths
    THEN <<origin>> \o reference
    ELSE <<origin, "/">> \o reference

\* Astro.url.toString()
UrlToString(url) == <<url.origin, url.pathname>>

\* A head that emits og:image whenever the frontmatter has the key.
PostHeadImageIfDefined(frontmatter, url) ==
    [title |-> frontmatter.title.v,
     metas |-> << Meta("og:type", <<"article">>),
                  Meta("og:locale", <<"en_US">>),
                  Meta("og:title", frontmatter.title.v),
                  Meta("og:description", frontmatter.description.v) >>
               \o (IF frontmatter.og_image_path.t = "string"
                   THEN << Meta("og:image",
                                ResolveUrl(frontmatter.og_image_path.v, url.origin)) >>
                   ELSE <<>>)
               \o << Meta("og:url", UrlToString(url)),
                     Meta("og:article:published_time", <<frontmatter.published>>) >>]

\* The post layout: ogImageUrl = frontmatter.og_image_path && new URL(...),
\* and the head with {ogImageUrl && <meta property="og:image" .../>}.
PostHead(frontmatter, url) ==
    LET ogImageUrl ==
            IF TruthyText(frontmatter.og_image_path)
            THEN Val("string", ResolveUrl(frontmatter.og_image_path.v, url.origin))
            ELSE frontmatter.og_image_path
    IN [title |-> frontmatter.title.v,
        metas |-> << Meta("og:type", <<"article">>),
                     Meta("og:locale", <<"en_US">>),
                     Meta("og:title", frontmatter.title.v),
                     Meta("og:description", frontmatter.description.v) >>
                  \o (IF TruthyText(ogImageUrl)
                      THEN << Meta("og:image", ogImageUrl.v) >>
                      ELSE <<>>)
                  \o << Meta("og:url", UrlToString(url)),
                        Meta("og:article:published_time", <<frontmatter.published>>) >>]

\* localStorage.getItem gives null for a key that is not stored.
NoItem == Val("null", 0)

\* A script that applies whatever item is stored, also the empty text.
ThemeScriptAnyItem(item, attribute) ==
    [storage |-> item,
     dataTheme |-> IF item.t = "string" THEN item ELSE attribute]

\* The inline script of both layouts:
\*   const theme = localStorage.getItem('theme');
\*   if (theme) { document.documentElement.dataset.theme = theme; }
\* Its effect on the stored item and on the data-theme attribute.
ThemeScript(item, attribute) ==
    [storage |-> item,
     dataTheme |-> IF TruthyText(item) THEN item ELSE attribute]

\* ------------------------------------------------------------------ state
VARIABLES
    files,      \* the content documents: raw frontmatter per storage identity
    pc,         \* where the build is
    store,      \* the validated entries of the posts collection
    error,      \* the schema failure the build reported, if any
    posts,      \* blog.astro: const posts = await getCollection(...)
    ordered,    \* blog.astro: the value of sortByPublished(posts)
    index,      \* blog.astro: the <li> entries of the rendered index
    lookup,     \* the last detail lookup: requested slug and its result
    page,       \* the props a layout was rendered with
    head,       \* the <head> that layout rendered: title and og meta tags
    storedTheme,\* the browser's localStorage item 'theme'
    dataTheme,  \* the data-theme attribute of the document element
    browser     \* whether the served page's head script has run

layoutVars == <<page, head, storedTheme, dataTheme, browser>>

vars == <<files, pc, store, error, posts, ordered, index, lookup, zone,
          page, head, storedTheme, dataTheme, browser>>

NoPage == [kind |-> "none"]
NoHead == [title |-> <<>>, metas |-> <<>>]

\* No page is rendered by a layout and no browser is involved.
LayoutIdle ==
    /\ page = NoPage
    /\ head = NoHead
    /\ storedTheme = NoItem
    /\ dataTheme = undefined
    /\ browser = "idle"

NoError == [id |-> 0, issues |-> <<>>]
NoLookup == [asked |-> 0, result |-> NoPost]

\* ---------------------------------------------------------- input shapes
Times == 1..MaxTime

TextKinds == {"undefined", "string", "number"}
PublishedShapes ==
    {undefined, Val("string", 1), Val("invalid_date", 0)}
        \cup {Val("date", ms) : ms \in Times}

\* The document stored under identity i; its text fields carry i, so that
\* the texts of two documents differ.  The slug is derived from the storage
\* identity and is unique.
Doc(i, tk, dk, pub, ok) ==
    [id |-> i, slug |-> i,
     title |-> IF tk = "undefined" THEN undefined ELSE Val(tk, i),
     description |-> IF dk = "undefined" THEN undefined ELSE Val(dk, i),
     published |-> pub,
     og_image_path |-> IF ok = "undefined" THEN undefined ELSE Val(ok, i)]

\* Every collection of at most n documents over the given shapes, built on
\* a host in one of the given zones.
InitOver(n, tKinds, dKinds, pubs, oKinds, zones) ==
    /\ zone \in zones
    /\ \E k \in 0..n :
         \E tk \in [1..k -> tKinds], dk \in [1..k -> dKinds],
            pub \in [1..k -> pubs], ok \in [1..k -> oKinds] :
              files = [i \in 1..k |-> Doc(i, tk[i], dk[i], pub[i], ok[i])]
    /\ pc = "start"
    /\ store = <<>>
    /\ error = NoError
    /\ posts = <<>>
    /\ ordered = <<>>
    /\ index = <<>>
    /\ lookup = NoLookup
    /\ LayoutIdle

\* Pipeline runs: larger collections; a document's title, published and
\* og_image_path are each present-and-right or missing.  The host is in UTC.
Init ==
    InitOver(MaxDocs, {"undefined", "string"}, {"string"},
             {undefined} \cup {Val("date", ms) : ms \in Times},
             {"undefined", "string"}, {0})

\* Calendar runs: the published date of a post of the repository, the date
\* of the documented example, a leap day and a last day of a year, at the
\* posts' noon and next to midnight, built in every whole-hour zone.
PostDates ==
    { <<2024, 1, 7>>, <<2025, 1, 7>>, <<2024, 2, 29>>, <<2024, 12, 31>> }

TimesOfDay == { <<0, 0>>, <<12, 0>>, <<23, 59>> }

PublishedInstants ==
    { DateUTC(ymd[1], ymd[2], ymd[3], hm[1], hm[2]) :
        ymd \in PostDates, hm \in TimesOfDay }

Zones == { 60 * h : h \in (0 - MaxZoneWest)..MaxZoneEast }

DatedInit ==
    InitOver(MaxDatedDocs, {"string"}, {"string"}, PublishedInstants,
             {"undefined"}, Zones)

\* Schema runs: every shape of every field, in a small collection.
SchemaInit ==
    InitOver(MaxSchemaDocs, TextKinds, TextKinds, PublishedShapes, TextKinds,
             {0})

\* ---------------------------------------------------------------- actions
\* The build loads the collection; a schema failure aborts the build and
\* reports one failing document with its issues.
LoadContent ==
    /\ pc = "start"
    /\ LET r == ParseCollection(files)
       IN IF r.failing = {}
          THEN /\ store' = r.entries
               /\ error' = NoError
               /\ pc' = "loaded"
          ELSE /\ \E i \in r.failing :
                    error' = [id |-> files[i].id, issues |-> SchemaIssues(files[i])]
               /\ store' = r.entries
               /\ pc' = "failed"
    /\ UNCHANGED <<files, posts, ordered, index, lookup, zone>>
    /\ UNCHANGED layoutVars

\* blog.astro frontmatter: const posts = await getCollection('posts', filter)
QueryPosts ==
    /\ pc = "loaded"
    /\ posts' = GetCollection(store)
    /\ pc' = "queried"
    /\ UNCHANGED <<files, store, error, ordered, index, lookup, zone>>
    /\ UNCHANGED layoutVars

\* A sort that also reorders the collection itself.
SortPostsInStore ==
    /\ pc = "queried"
    /\ LET call == sortByPublished(posts)
       IN /\ posts' = call.receiver
          /\ ordered' = call.returned
          /\ store' = call.returned
    /\ pc' = "sorted"
    /\ UNCHANGED <<files, error, index, lookup, zone>>
    /\ UNCHANGED layoutVars

\* blog.astro template: sortByPublished(posts)
SortPosts ==
    /\ pc = "queried"
    /\ LET call == sortByPublished(posts)
       IN /\ posts' = call.receiver
          /\ ordered' = call.returned
    /\ pc' = "sorted"
    /\ UNCHANGED <<files, store, error, index, lookup, zone>>
    /\ UNCHANGED layoutVars

\* A render step after which the page is composed again.
RenderPageAgain ==
    /\ pc = "sorted"
    /\ index' = RenderIndex(ordered)
    /\ pc' = "loaded"
    /\ UNCHANGED <<files, store, error, posts, ordered, lookup, zone>>
    /\ UNCHANGED layoutVars

\* blog.astro template: .map((post) => <li>...</li>); the page is emitted.
RenderPage ==
    /\ pc = "sorted"
    /\ index' = RenderIndex(ordered)
    /\ pc' = "succeeded"
    /\ UNCHANGED <<files, store, error, posts, ordered, lookup, zone>>
    /\ UNCHANGED layoutVars

\* A detail page is asked for by slug, once the collection is loaded.
Lookup ==
    /\ pc \in {"loaded", "queried", "sorted", "succeeded"}
    /\ \E slug \in 1..(Len(files) + 1) :
         lookup' = [asked |-> slug, result |-> DetailLookup(store, slug)]
    /\ UNCHANGED <<files, pc, store, error, posts, ordered, index, zone>>
    /\ UNCHANGED layoutVars

\* Layout runs: one page is rendered by a layout and served to a browser
\* whose storage holds no theme, an empty one, or one of the two themes of
\* the site; the served <html> element carries no data-theme.
TitleProps == {undefined, EmptyText, Text("Blog")}

StoredThemes == {NoItem, EmptyText, Text("light"), Text("dark")}

Frontmatters ==
    { [title |-> Text(t), description |-> Text("d"),
       published |-> DateUTC(2024, 4, 27, 12, 0), og_image_path |-> og] :
        t \in {"Verifying Slack Requests in Phoenix", "T"},
        og \in {undefined, EmptyText}
                \cup {Text(path) : path \in RootedPaths \cup RelativePaths} }

PageUrls ==
    { [origin |-> o, pathname |-> "/blog/verifying-slack-requests-elixir-phoenix"] :
        o \in {"https://benreinhart.com", "http://localhost:4321"} }

LayoutInit ==
    /\ files = <<>> /\ pc = "start" /\ store = <<>> /\ error = NoError
    /\ posts = <<>> /\ ordered = <<>> /\ index = <<>> /\ lookup = NoLookup
    /\ zone = 0
    /\ page = NoPage
    /\ head = NoHead
    /\ storedTheme \in StoredThemes
    /\ dataTheme = undefined
    /\ browser = "idle"

pipelineVars == <<files, pc, store, error, posts, ordered, index, lookup, zone>>

\* A page wrapped in the Home layout is rendered (blog.astro passes "Blog",
\* projects.astro passes no title).
RenderHomeLayout ==
    /\ page = NoPage
    /\ \E title \in TitleProps :
          /\ page' = [kind |-> "home", title |-> title]
          /\ head' = HomeHead(title)
    /\ UNCHANGED <<storedTheme, dataTheme, browser>>
    /\ UNCHANGED pipelineVars

\* A post is rendered by the post layout.
RenderPostLayout ==
    /\ page = NoPage
    /\ \E frontmatter \in Frontmatters, url \in PageUrls :
          /\ page' = [kind |-> "post", frontmatter |-> frontmatter, url |-> url]
          /\ head' = PostHead(frontmatter, url)
    /\ UNCHANGED <<storedTheme, dataTheme, browser>>
    /\ UNCHANGED pipelineVars

\* The browser loads the served page and runs the inline script of its head.
PageLoad ==
    /\ page # NoPage
    /\ browser = "idle"
    /\ LET run == ThemeScript(storedTheme, dataTheme)
       IN /\ storedTheme' = run.storage
          /\ dataTheme' = run.dataTheme
    /\ browser' = "loaded"
    /\ UNCHANGED <<page, head>>
    /\ UNCHANGED pipelineVars

LayoutNext == RenderHomeLayout \/ RenderPostLayout \/ PageLoad

Next == LoadContent \/ QueryPosts \/ SortPosts \/ RenderPage \/ Lookup

Spec == Init /\ [][Next]_vars

SchemaSpec == SchemaInit /\ [][Next]_vars

DatedSpec == DatedInit /\ [][Next]_vars

LayoutSpec == LayoutInit /\ [][LayoutNext]_vars

\* The build is one synchronous pass: a step of the pipeline that can be
\* taken is taken.
LiveSpec ==
    /\ SchemaInit /\ [][Next]_vars
    /\ WF_vars(LoadContent) /\ WF_vars(QueryPosts)
    /\ WF_vars(SortPosts) /\ WF_vars(RenderPage)

\* ------------------------------------------------------- claim vocabulary
Ids(seq) == {seq[i].id : i \in 1..Len(seq)}

Built == pc \in {"sorted", "succeeded"}
Ended == pc \in {"failed", "succeeded"}

IsText(x) == x.t = "string"

\* A document as the data model describes a post: title and description
\* are text, published is a date or missing, og_image_path is text or
\* missing.
WellFormed(doc) ==
    /\ IsText(doc.title) /\ IsText(doc.description)
    /\ doc.published.t \in {"date", "undefined"}
    /\ doc.og_image_path.t \in {"string", "undefined"}

IsDraft(doc) == WellFormed(doc) /\ doc.published = undefined

PositionIn(seq, id) == CHOOSE i \in 1..Len(seq) : seq[i].id = id

\* ------------------------------------------------------------------ claims
\* C1: in the result of sortByPublished, a post published strictly later
\* than another post of the input stands before it.
C1_LaterPostsFirst ==
    Built =>
        \A a, b \in 1..Len(posts) :
            Number(posts[a].data.published).n > Number(posts[b].data.published).n
                => /\ {posts[a].id, posts[b].id} \subseteq Ids(ordered)
                   /\ PositionIn(ordered, posts[a].id) < PositionIn(ordered, posts[b].id)

\* C1 witness: the sort has run on an input that held an older post before
\* a newer one.
C1_Witness ==
    /\ pc = "sorted"
    /\ \E a, b \in 1..Len(posts) :
          a < b /\ posts[a].data.published.v < posts[b].data.published.v

\* C2: the step that calls sortByPublished leaves the array it was given
\* as it was.
C2_InputNotMutated ==
    [][(pc = "queried" /\ pc' = "sorted") => posts' = posts]_vars

\* C2 witness: the sort has returned an order that differs from the order
\* of the input it was given, and the input still is in its own order.
C2_Witness ==
    /\ pc = "sorted"
    /\ ordered # posts
    /\ posts = GetCollection(store)

\* C3 (as claimed): a collection whose documents all have text title and
\* description, whatever optional fields are missing, does not fail the
\* build.
C3_DraftsAccepted ==
    (\A i \in 1..Len(files) : WellFormed(files[i])) => pc # "failed"

\* C4: a document whose title or description is missing or is not text is
\* rejected by the schema, and the build gets no further than failure.
C4_RequiredTextRejected ==
    \A i \in 1..Len(files) :
        (~IsText(files[i].title) \/ ~IsText(files[i].description))
            => /\ ~SchemaAccepts(files[i])
               /\ pc \in {"start", "failed"}
               /\ store = <<>>

\* C4 witness: the build has failed on a document whose only flaw is its title.
C4_Witness ==
    /\ pc = "failed"
    /\ \E i \in 1..Len(files) :
          /\ error.id = files[i].id
          /\ ~IsText(files[i].title)
          /\ Len(error.issues) = 1
          /\ error.issues[1].path = "title"

\* C5 (as claimed): when the build of a well-formed collection has ended,
\* each draft of it was loaded, was removed by the index filter, and
\* stands in no index entry.
C5_DraftsFilteredOut ==
    (Ended /\ \A i \in 1..Len(files) : WellFormed(files[i])) =>
        \A i \in 1..Len(files) :
            IsDraft(files[i]) =>
                /\ files[i].id \in Ids(store)
                /\ files[i].id \notin Ids(posts)
                /\ \A k \in 1..Len(index) : index[k].url[2] # files[i].slug

\* C6 (as claimed): when the build of a well-formed collection has ended,
\* the index lists exactly the posts that have a published value, in the
\* order of sortByPublished; for A (older), B (newer), C (no published)
\* that is [B, A].
C6_ScenarioABC ==
    /\ Len(files) = 3
    /\ \A i \in 1..3 : WellFormed(files[i])
    /\ files[1].published = Val("date", 1)
    /\ files[2].published = Val("date", 2)
    /\ files[3].published = undefined

C6_IndexListsPublished ==
    (Ended /\ \A i \in 1..Len(files) : WellFormed(files[i])) =>
        /\ index = RenderIndex(sortByPublished(
                       SelectSeq([i \in 1..Len(files) |-> Entry(files[i])],
                                 HasPublished)).returned)
        /\ (C6_ScenarioABC =>
               /\ Len(index) = 2
               /\ index[1].url = <<"/blog/", files[2].slug>>
               /\ index[2].url = <<"/blog/", files[1].slug>>)

\* C7: a collection with a document the schema rejects never gets past
\* failure and nothing is produced for any of its documents; a build that
\* succeeded has an index entry for every document of the collection.
C7_NoPartialSuccess ==
    /\ (\E i \in 1..Len(files) : ~SchemaAccepts(files[i])) =>
            /\ pc \in {"start", "failed"}
            /\ store = <<>> /\ posts = <<>> /\ ordered = <<>>
            /\ index = <<>> /\ lookup = NoLookup
    /\ pc = "failed" => \E i \in 1..Len(files) : ~SchemaAccepts(files[i])
    /\ pc = "succeeded" =>
            /\ Len(index) = Len(files)
            /\ \A i \in 1..Len(files) :
                  \E k \in 1..Len(index) : index[k].url[2] = files[i].slug

\* C7 witness: the build failed on a collection that also holds a document
\* the schema accepts.
C7_Witness ==
    /\ pc = "failed"
    /\ \E i, j \in 1..Len(files) :
          SchemaAccepts(files[i]) /\ ~SchemaAccepts(files[j])

\* C8: a detail lookup yields the post of the collection whose slug is the
\* requested one, and the value "absent" exactly when no post has it.
C8_LookupBySlug ==
    lookup.asked # 0 =>
        IF \E i \in 1..Len(store) : store[i].slug = lookup.asked
        THEN /\ Len(lookup.result) = 1
             /\ lookup.result[1].slug = lookup.asked
             /\ \E i \in 1..Len(store) : store[i] = lookup.result[1]
        ELSE lookup.result = NoPost

\* C8 witness: a slug that no post of a non-empty collection has was asked for.
C8_Witness ==
    /\ lookup.asked # 0
    /\ store # <<>>
    /\ \A i \in 1..Len(store) : store[i].slug # lookup.asked

\* C9: sorting the result of sortByPublished again gives the same order.
C9_Idempotent ==
    Built => sortByPublished(ordered).returned = ordered

\* C9 witness: the sorted result holds two posts with the same published
\* instant and one with another.
C9_Witness ==
    /\ pc = "sorted"
    /\ \E i, j, k \in 1..Len(ordered) :
          /\ i # j
          /\ ordered[i].data.published = ordered[j].data.published
          /\ ordered[k].data.published # ordered[i].data.published

\* C10 (as claimed): the schema rejects a document exactly when a required
\* text is missing or mistyped or a present optional field has the wrong
\* type; a build fails only on such a document.
WrongOptional(doc) ==
    \/ doc.published.t \notin {"date", "undefined"}
    \/ doc.og_image_path.t \notin {"string", "undefined"}

C10_OptionalTypesChecked ==
    /\ \A i \in 1..Len(files) :
          WrongOptional(files[i]) => pc \in {"start", "failed"}
    /\ pc = "failed" =>
          \E i \in 1..Len(files) :
              /\ error.id = files[i].id
              /\ \/ WrongOptional(files[i])
                 \/ ~IsText(files[i].title)
                 \/ ~IsText(files[i].description)

\* C11: the failure a build reports names a document of the collection
\* that the schema rejects and, for that document, exactly the fields that
\* are missing or mistyped; a missing title is reported under "title".
SchemaFields == {"title", "description", "published", "og_image_path"}

FieldFails(doc, f) ==
    CASE f = "title" -> ~IsText(doc.title)
      [] f = "description" -> ~IsText(doc.description)
      [] f = "published" -> doc.published.t # "date"
      [] f = "og_image_path" -> doc.og_image_path.t \notin {"string", "undefined"}

C12_EntryOfOnePost ==
    pc = "succeeded" =>
        \A k \in 1..Len(index) :
            \E i \in 1..Len(files) :
                /\ index[k].url = <<"/blog/", files[i].slug>>
                /\ index[k].title = files[i].title
                /\ index[k].description = files[i].description
                /\ index[k].humanTimeString = DateFieldsAt(files[i].published.v, zone)
                /\ index[k].isoTimestamp = toISOString(files[i].published)

\* C12 witness: an index of two posts with different texts and dates.
C12_Witness ==
    /\ pc = "succeeded"
    /\ Len(index) = 2
    /\ index[1].title # index[2].title
    /\ index[1].humanTimeString # index[2].humanTimeString

\* C15: humanTime gives the long form of the date in the host's zone: a
\* full weekday name, a full month name, the day and the year of that
\* calendar date, with the weekday that date falls on; noon UTC of
\* 7 January 2025 read in New York is Tuesday, January 7, 2025.
IsLeapYear(y) == (y % 4 = 0 /\ y % 100 # 0) \/ y % 400 = 0

DaysInMonth(y, m) ==
    IF m = 2 THEN (IF IsLeapYear(y) THEN 29 ELSE 28)
    ELSE IF m \in {4, 6, 9, 11} THEN 30 ELSE 31

\* Day of the week of a calendar date, 0 for Sunday (Sakamoto's method).
DayOfWeek(y, m, d) ==
    LET t == <<0, 3, 2, 5, 0, 3, 5, 1, 4, 6, 2, 4>>
        yy == IF m < 3 THEN y - 1 ELSE y
    IN (yy + yy \div 4 - yy \div 100 + yy \div 400 + t[m] + d) % 7

PostOfEntry(k) == CHOOSE i \in 1..Len(files) : files[i].slug = index[k].url[2]

C15_LongFormDate ==
    pc = "succeeded" =>
        \A k \in 1..Len(index) :
            LET h == index[k].humanTimeString
                t == files[PostOfEntry(k)].published.v
            IN /\ \E m \in 1..12 :
                    /\ h.month = MonthNames[m]
                    /\ h.day \in 1..DaysInMonth(h.year, m)
                    /\ DaysFromCivil(h.year, m, h.day) = (t + zone) \div MinutesPerDay
                    /\ h.weekday = WeekdayNames[DayOfWeek(h.year, m, h.day) + 1]
               /\ (t = DateUTC(2025, 1, 7, 12, 0).v /\ zone = 0 - 300) =>
                    h = [weekday |-> "Tuesday", month |-> "January",
                         day |-> 7, year |-> 2025]

\* C15 witness: the index of a build in New York shows the post of noon UTC
\* of 7 January 2025.
C15_Witness ==
    /\ pc = "succeeded"
    /\ zone = 0 - 300
    /\ \E k \in 1..Len(index) :
          /\ files[PostOfEntry(k)].published = DateUTC(2025, 1, 7, 12, 0)
          /\ index[k].humanTimeString.weekday = "Tuesday"

\* C16: once the collection is loaded no step changes it, and no step ever
\* changes the documents: composing the index leaves every post and the
\* membership of the collection as they were.
C16_CollectionImmutable ==
    [][files' = files /\ (pc # "start" => store' = store)]_vars

\* C16 witness: an index was composed in an order that differs from the
\* order of the collection, and the collection still is the validated
\* documents in their order.
C16_Witness ==
    /\ pc = "succeeded"
    /\ Len(index) >= 2
    /\ ordered # store
    /\ store = [i \in 1..Len(files) |-> Entry(files[i])]

\* C17: every build ends, succeeded or failed; the build only moves
\* forward through the pipeline, so that no stage runs twice, and once
\* ended it stays as it ended.
Stage(p) ==
    CASE p = "start" -> 0
      [] p = "loaded" -> 1
      [] p = "queried" -> 2
      [] p = "sorted" -> 3
      [] OTHER -> 4

C17_RunsOnceAndEnds ==
    /\ <>Ended
    /\ [][/\ pc' # pc => Stage(pc') > Stage(pc)
          /\ Ended => pc' = pc]_vars

\* C17 witness: a build went through every stage and ended with an index.
C17_Witness ==
    /\ pc = "succeeded"
    /\ index # <<>>
    /\ lookup = NoLookup

\* C18: the result of sortByPublished has the length of its input and
\* holds every input post, unaltered, as often as the input does.
Count(seq, x) == Cardinality({i \in 1..Len(seq) : seq[i] = x})

C18_Permutation ==
    Built =>
        /\ Len(ordered) = Len(posts)
        /\ \A i \in 1..Len(posts) : Count(ordered, posts[i]) = Count(posts, posts[i])
        /\ \A i \in 1..Len(ordered) : Count(posts, ordered[i]) = Count(ordered, ordered[i])

\* C18 witness: a reordered result of three posts, two of them published
\* at the same instant.
C18_Witness ==
    /\ pc = "sorted"
    /\ Len(ordered) = 3
    /\ ordered # posts
    /\ Cardinality({ordered[i].data.published : i \in 1..3}) = 2

\* C19: two posts with the same published instant stand in the result in
\* the order they have in the input.
C19_Stable ==
    Built =>
        \A a, b \in 1..Len(posts) :
            (a < b /\ posts[a].data.published = posts[b].data.published)
                => /\ {posts[a].id, posts[b].id} \subseteq Ids(ordered)
                   /\ PositionIn(ordered, posts[a].id) < PositionIn(ordered, posts[b].id)

\* C19 witness: the input held two posts of the same instant and, after
\* them, a newer post that the sort moved to the front.
C19_Witness ==
    /\ pc = "sorted"
    /\ Len(posts) = 3
    /\ posts[1].data.published = posts[2].data.published
    /\ posts[3].data.published.v > posts[1].data.published.v
    /\ ordered[1] = posts[3]

\* C20 (as claimed): in every index entry the human-readable date and the
\* ISO timestamp show the same calendar day.
SameCalendarDay(h, iso) ==
    /\ h.year = iso.year
    /\ h.month = MonthNames[iso.month]
    /\ h.day = iso.day

C20_SameCalendarDay ==
    pc = "succeeded" =>
        \A k \in 1..Len(index) :
            SameCalendarDay(index[k].humanTimeString, index[k].isoTimestamp)

\* C20 (amended): the human-readable date is the day of the published
\* instant in the host's zone and the ISO timestamp its day in UTC; they
\* are the same calendar day exactly when the zone's offset does not carry
\* the instant over a UTC midnight, which is so for every instant on a
\* host in UTC, and for a post published at noon UTC at every offset from
\* -12:00 up to, not including, +12:00.
C20_SameDayUnlessMidnightCrossed ==
    pc = "succeeded" =>
        \A k \in 1..Len(index) :
            LET t == files[PostOfEntry(k)].published.v
                same == SameCalendarDay(index[k].humanTimeString,
                                        index[k].isoTimestamp)
            IN /\ same <=> ((t + zone) \div MinutesPerDay = t \div MinutesPerDay)
               /\ zone = 0 => same
               /\ (t % MinutesPerDay = 12 * 60 /\ zone >= 0 - 12 * 60 /\ zone < 12 * 60)
                     => same

\* C20 witness: a post published at noon UTC is listed by a build at +13:00
\* under the next day.
C20_Witness ==
    /\ pc = "succeeded"
    /\ zone = 13 * 60
    /\ \E k \in 1..Len(index) :
          /\ index[k].isoTimestamp.hour = 12
          /\ ~SameCalendarDay(index[k].humanTimeString, index[k].isoTimestamp)

\* C21 (as claimed): a collection of accepted documents with a draft added
\* at its end builds successfully, into the index of the collection
\* without the draft.
C21_DraftChangesNothing ==
    LET n == Len(files)
    IN (/\ Ended
        /\ n >= 1
        /\ IsDraft(files[n])
        /\ \A i \in 1..(n - 1) : SchemaAccepts(files[i]))
         => /\ pc = "succeeded"
            /\ index = RenderIndex(sortByPublished(GetCollection(
                           [i \in 1..(n - 1) |-> Entry(files[i])])).returned)

\* C22: the urls of the index entries differ from one another, and a
\* detail lookup of the slug in an entry's url gives the post the entry
\* was made from.
C22_LinksResolve ==
    pc = "succeeded" =>
        /\ \A j, k \in 1..Len(index) : j # k => index[j].url # index[k].url
        /\ \A k \in 1..Len(index) :
              /\ index[k].url[1] = "/blog/"
              /\ DetailLookup(store, index[k].url[2]) = << ordered[k] >>
              /\ lookup.asked = index[k].url[2] => lookup.result = << ordered[k] >>
              /\ index[k].title = ordered[k].data.title

\* C22 witness: the slug of the second entry of an index, whose order is
\* not that of the collection, was looked up and a post was found.
C22_Witness ==
    /\ pc = "succeeded"
    /\ Len(index) >= 2
    /\ ordered # store
    /\ lookup.asked = index[2].url[2]
    /\ lookup.result # NoPost

\* C23: the head of a post has an og:image tag exactly when the
\* frontmatter's og_image_path is a non-empty text; its content is the
\* site origin followed by the path; og:title, og:description and og:url
\* are there with or without it.
TagsOf(property) ==
    {k \in 1..Len(head.metas) : head.metas[k].property = property}

C23_OgImageIffPath ==
    page.kind = "post" =>
        LET og == page.frontmatter.og_image_path
            images == TagsOf("og:image")
        IN /\ images # {} <=> (og.t = "string" /\ Len(og.v) > 0)
           /\ Cardinality(images) <= 1
           /\ \A k \in images :
                 LET content == head.metas[k].content
                 IN /\ content[1] = page.url.origin
                    /\ content[Len(content)] = og.v[Len(og.v)]
                    /\ og = Text("/og/slack-verification.png") =>
                          content = <<page.url.origin, "/og/slack-verification.png">>
                    /\ og = Text("og/cover.png") =>
                          content = <<page.url.origin, "/", "og/cover.png">>
           /\ \E k \in TagsOf("og:title") :
                 head.metas[k].content = page.frontmatter.title.v
           /\ \E k \in TagsOf("og:description") :
                 head.metas[k].content = page.frontmatter.description.v
           /\ \E k \in TagsOf("og:url") :
                 head.metas[k].content = <<page.url.origin, page.url.pathname>>

\* C23 witness: the post with the og image of the repository was rendered
\* for the site and its head carries the resolved image url.
C23_Witness ==
    /\ page.kind = "post"
    /\ page.url.origin = "https://benreinhart.com"
    /\ \E k \in TagsOf("og:image") :
          head.metas[k].content =
              <<"https://benreinhart.com", "/og/slack-verification.png">>

\* C24: the Home layout titles the page "<title> · Ben Reinhart" for a
\* non-empty title prop and "Ben Reinhart" for a missing or empty one; the
\* blog index, which passes "Blog", is titled "Blog · Ben Reinhart".
C24_HomeTitle ==
    page.kind = "home" =>
        /\ (page.title.t = "string" /\ Len(page.title.v) > 0)
              => head.title = page.title.v \o <<" · ", "Ben Reinhart">>
        /\ (page.title.t = "undefined" \/ (page.title.t = "string" /\ Len(page.title.v) = 0))
              => head.title = <<"Ben Reinhart">>
        /\ (page.title.t = "string" /\ page.title.v = <<"Blog">>)
              => head.title = <<"Blog", " · ", "Ben Reinhart">>

\* C24 witness: the blog index page was rendered with its title.
C24_Witness ==
    /\ page.kind = "home"
    /\ page.title.t = "string"
    /\ page.title.v = <<"Blog">>
    /\ head.title = <<"Blog", " · ", "Ben Reinhart">>

\* C25 (as claimed): the head script sets data-theme to the stored item
\* whenever an item is stored, leaves it alone when none is stored, and
\* does not write to the storage.
ScriptRuns == browser = "idle" /\ browser' = "loaded"

C25_ThemeAppliedIfStored ==
    [][ScriptRuns =>
          /\ storedTheme.t = "string" => dataTheme' = storedTheme
          /\ storedTheme.t = "null" => dataTheme' = dataTheme
          /\ storedTheme' = storedTheme]_vars

\* C25 (amended): the head script sets data-theme to the stored item when
\* a non-empty text is stored, leaves it alone when nothing or the empty
\* text is stored, and does not write to the storage.
C25_ThemeAppliedIfNonEmpty ==
    [][ScriptRuns =>
          /\ (storedTheme.t = "string" /\ Len(storedTheme.v) > 0)
                => dataTheme' = storedTheme
          /\ (storedTheme.t = "null" \/ (storedTheme.t = "string" /\ Len(storedTheme.v) = 0))
                => dataTheme' = dataTheme
          /\ storedTheme' = storedTheme]_vars

\* C25 witness: a page was loaded in a browser that stores the dark theme,
\* and the document carries it.
C25_Witness ==
    /\ browser = "loaded"
    /\ storedTheme.t = "string"
    /\ storedTheme.v = <<"dark">>
    /\ dataTheme.t = "string"
    /\ dataTheme.v = <<"dark">>

====
